---- MODULE Spec2Model ----
(***************************************************************************)
(* Model of finreganalytics/dataprep/dataloading.py: the Cleaner (clean),  *)
(* the Loader (load_and_clean_data) and the Splitter (split).              *)
(* A text is a sequence of one-character strings.                          *)
(***************************************************************************)
EXTENDS Integers, Sequences, FiniteSets, TLC

\* ------------------------------------------------------------- bounds
\* Longest text handed to clean in SpecClean.
MaxLen == 4
\* SpecLoader: most fragments the parser returns for the document, and the
\* most characters its fragments hold together.
MaxFrags == 3
MaxDocLen == 3
\* Spec: documents in the source folder.
NumDocs == 2
\* Spec: most chunks the splitter returns for one text.
MaxChunks == 2
\* SpecConfig: split is called with the chunk sizes -MaxChunkSize..MaxChunkSize
\* and 10 * 2^50 .. 10 * 2^50 + MaxChunkSize.
MaxChunkSize == 25

\* ------------------------------------------------------------- program constants
\* Line 45: .repartition(20).
NumPartitions == 20
\* Line 86: chunk_overlap=int(chunk_size / 10).
OverlapDivisor == 10
\* Line 86: the quotient chunk_size / 10 is a Python float, a binary64 with a
\* significand of 53 bits.
FloatBits == 53

\* ------------------------------------------------------------- characters
SP == " "
DOT == "."
NL == "\n"
\* Every other character behaves alike under both patterns of clean.
Chars == {SP, DOT, NL, "a"}

TextsUpTo(n) == UNION {[1..k -> Chars] : k \in 0..n}

\* ------------------------------------------------------------- clean
\* re.sub(r"\n", "", txt) with count = 1: only the first newline goes.
RECURSIVE RemoveFirstNewline(_)
RemoveFirstNewline(txt) ==
    IF txt = <<>> THEN <<>>
    ELSE IF Head(txt) = NL THEN Tail(txt)
    ELSE <<Head(txt)>> \o RemoveFirstNewline(Tail(txt))

\* Line 49: re.sub(r"\n", "", txt) deletes every newline character.
RemoveNewlines(txt) == SelectSeq(txt, LAMBDA c : c # NL)

\* re.sub(r" *\.", ".", txt): the greedy variant that eats a whole run of spaces.
RECURSIVE DropSpaces(_)
DropSpaces(txt) ==
    IF txt # <<>> /\ Head(txt) = SP THEN DropSpaces(Tail(txt)) ELSE txt

RECURSIVE CollapseSpaceRunDot(_)
CollapseSpaceRunDot(txt) ==
    IF txt = <<>> THEN <<>>
    ELSE IF DropSpaces(txt) # <<>> /\ Head(DropSpaces(txt)) = DOT
         THEN <<DOT>> \o CollapseSpaceRunDot(Tail(DropSpaces(txt)))
    ELSE <<Head(txt)>> \o CollapseSpaceRunDot(Tail(txt))

\* re.sub(r" ?\.", ".", txt, count=1): only the first match is replaced.
RECURSIVE CollapseFirstSpaceDot(_)
CollapseFirstSpaceDot(txt) ==
    IF txt = <<>> THEN <<>>
    ELSE IF Len(txt) >= 2 /\ txt[1] = SP /\ txt[2] = DOT
         THEN <<DOT>> \o SubSeq(txt, 3, Len(txt))
    ELSE IF txt[1] = DOT THEN txt
    ELSE <<txt[1]>> \o CollapseFirstSpaceDot(Tail(txt))

\* Line 50: re.sub(r" ?\.", ".", txt).  The scan goes left to right over
\* non-overlapping matches: at each position the pattern matches " ." (two
\* characters) or "." (one character), and the match is replaced by ".";
\* where it matches nothing the character is copied and the scan moves on.
RECURSIVE CollapseSpaceDot(_)
CollapseSpaceDot(txt) ==
    IF txt = <<>> THEN <<>>
    ELSE IF Len(txt) >= 2 /\ txt[1] = SP /\ txt[2] = DOT
         THEN <<DOT>> \o CollapseSpaceDot(SubSeq(txt, 3, Len(txt)))
    ELSE IF txt[1] = DOT
         THEN <<DOT>> \o CollapseSpaceDot(Tail(txt))
    ELSE <<txt[1]>> \o CollapseSpaceDot(Tail(txt))

\* Lines 48-50: clean(txt).
clean(txt) == CollapseSpaceDot(RemoveNewlines(txt))


\* ------------------------------------------------------------- parse_and_clean_one_pdf
\* "".join(parts): the separator is dropped.
RECURSIVE JoinEmpty(_)
JoinEmpty(parts) ==
    IF parts = <<>> THEN <<>> ELSE Head(parts) \o JoinEmpty(Tail(parts))

\* Line 54: "\n".join(parts).
RECURSIVE JoinNewline(_)
JoinNewline(parts) ==
    IF parts = <<>> THEN <<>>
    ELSE IF Len(parts) = 1 THEN parts[1]
    ELSE parts[1] \o <<NL>> \o JoinNewline(Tail(parts))

\* Lines 52-54: the text of a document whose parser output is `frags`.
parse_and_clean_one_pdf(frags) ==
    JoinNewline([i \in 1..Len(frags) |-> clean(frags[i])])

\* The fragment sequences of n fragments holding at most m characters together.
RECURSIVE FragSeqsOf(_, _)
FragSeqsOf(n, m) ==
    IF n = 0 THEN {<<>>}
    ELSE UNION {{<<f>> \o rest : f \in [1..k -> Chars], rest \in FragSeqsOf(n - 1, m - k)}
                : k \in 0..m}

FragSeqs == UNION {FragSeqsOf(n, MaxDocLen) : n \in 0..MaxFrags}

\* ------------------------------------------------------------- the pipeline's inputs
Docs == 1..NumDocs

\* The non-empty partitions: repartition(20) spreads the rows over 20
\* partitions, of which at most NumDocs hold a row.
Parts == 1..(IF NumDocs < NumPartitions THEN NumDocs ELSE NumPartitions)

\* What storage and the parser hold for a document: partition_pdf either
\* raises on its bytes (ok = FALSE) or returns the fragments.
ParserFails == [ok |-> FALSE, frags |-> <<>>]
Parsed(frags) == [ok |-> TRUE, frags |-> frags]
Contents ==
    { ParserFails,
      Parsed(<<>>),
      Parsed(<< <<"a", SP, DOT>>, <<"a", NL, "a">> >>) }

\* Partitions are interchangeable, so the assignments are taken up to renaming:
\* a document goes to a partition already in use or to the next unused one.
Layouts ==
    {f \in [Docs -> Parts] :
        \A d \in Docs : f[d] = 1 \/ \E e \in 1..(d - 1) : f[e] >= f[d] - 1}

NoText == [has |-> FALSE, val |-> <<>>]
\* Python's integers are unbounded and TLC's are not: the integer
\* hi * 2^50 + lo is held as [hi, lo], with |lo| at most MaxChunkSize.  The
\* model needs hi = 0 (the sizes of practice), hi = 10 (the sizes from
\* 10 * 2^50 on) and, for their tenths, hi = 1.
Num(hi, lo) == [hi |-> hi, lo |-> lo]
IsPositive(x) == x.hi > 0 \/ (x.hi = 0 /\ x.lo > 0)
IsNegative(x) == x.hi < 0 \/ (x.hi = 0 /\ x.lo < 0)
IsLess(x, y) == x.hi < y.hi \/ (x.hi = y.hi /\ x.lo < y.lo)

NoSplitter == [built |-> FALSE, chunk_size |-> Num(0, 0), chunk_overlap |-> Num(0, 0)]

\* int(x): truncation toward zero of n / d, for d > 0.
TruncDiv(n, d) == IF n >= 0 THEN n \div d ELSE -((-n) \div d)

\* 2^k.
RECURSIVE Pow2(_)
Pow2(k) == IF k = 0 THEN 1 ELSE 2 * Pow2(k - 1)

\* The floats from 2^50 up to 2^51 are 2^(FloatBits - 1 - 50) = 4 to the unit.
FloatsPerUnit == Pow2(FloatBits - 1 - 50)

\* Line 86: int(chunk_size / 10).  chunk_size / 10 is the float nearest the
\* exact quotient, and int truncates it.  Below 10 * 2^50 the floats around
\* the quotient are far finer than a tenth, so that the truncation is that of
\* the exact quotient.  For 10 * 2^50 + lo the quotient 2^50 + lo / 10 is
\* rounded to the nearest quarter (a tenth is never half way between two
\* quarters) before it is truncated.
ChunkOverlap(c) ==
    IF c.hi = 0
    THEN Num(0, TruncDiv(c.lo, OverlapDivisor))
    ELSE Num(c.hi \div OverlapDivisor,
             ((2 * FloatsPerUnit * c.lo + OverlapDivisor) \div (2 * OverlapDivisor))
                 \div FloatsPerUnit)

\* Lines 83-89: the splitter a partition builds from split's arguments.
NewSplitter(c) == [built |-> TRUE, chunk_size |-> c, chunk_overlap |-> ChunkOverlap(c)]

\* The j-th chunk the splitter `sp` cuts from `text`: its content is the
\* library's, so the model keeps only what identifies it.
Chunk(text, sp, j) == [of |-> text, chunk_size |-> sp.chunk_size,
                       chunk_overlap |-> sp.chunk_overlap, idx |-> j]

ChunkList(text, sp, k) == [j \in 1..k |-> Chunk(text, sp, j)]

\* explode_outer: a row with an empty array still yields one (null) row.
RECURSIVE ExplodeOuter(_)
ExplodeOuter(rows) ==
    IF rows = <<>> THEN <<>>
    ELSE (IF Head(rows).arr = <<>>
          THEN << [path |-> Head(rows).path, text |-> <<>>] >>
          ELSE [i \in 1..Len(Head(rows).arr) |->
                    [path |-> Head(rows).path, text |-> Head(rows).arr[i]]])
         \o ExplodeOuter(Tail(rows))

\* Line 93: explode(...) gives one row per array element, in array order, and
\* no row for an empty array.
RECURSIVE Explode(_)
Explode(rows) ==
    IF rows = <<>> THEN <<>>
    ELSE [i \in 1..Len(Head(rows).arr) |->
              [path |-> Head(rows).path, text |-> Head(rows).arr[i]]]
         \o Explode(Tail(rows))

\* ------------------------------------------------------------- state
VARIABLES
    t,              \* clean: the argument the call was made with
    txt,            \* clean: the local variable txt
    cpc,            \* clean: the line about to run ("line49", "line50", "return")
    chunks,         \* parse_and_clean_one_pdf: the fragments partition_pdf returned
    acc,            \* parse_and_clean_one_pdf: the list the comprehension has built
    ret,            \* parse_and_clean_one_pdf: the returned text
    ppc,            \* parse_and_clean_one_pdf: "line53", "line54", "return"
    content,        \* per document: what the parser makes of its bytes
    part,           \* per document: its partition
    batchSize,      \* rows per batch of the batch iterators
    stage,          \* driver: "loaded" (load_and_clean_data returned), "split"
    chunk_size,     \* split's argument
    lpc,            \* per partition: parse_and_clean_pdfs_udf is "run" or "failed"
    ldone,          \* per partition: rows parse_and_clean_pdfs_udf has yielded
    text,           \* per document: the text column of the Loader's record
    spc,            \* per partition: split_udf is "init", "ready" or "failed"
    serr,           \* per partition: the exception split_udf ended with
    attempts,       \* per partition: calls of AutoTokenizer.from_pretrained
    text_splitter,  \* per partition: split_udf's local text_splitter
    sdone,          \* per partition: rows split_udf has yielded
    arrays,         \* per document: the array column split_udf yielded
    out,            \* per partition: the rows of the final table, in order
    memo            \* the splitter library: chunk count per (text, splitter) asked so far

cleanVars == <<t, txt, cpc>>
oneVars == <<chunks, acc, ret, ppc>>
inputVars == <<content, part, batchSize>>
loadVars == <<lpc, ldone, text>>
splitVars == <<spc, serr, attempts, text_splitter, sdone, arrays, out, memo>>
pipeVars == <<inputVars, stage, chunk_size, loadVars, splitVars>>
vars == <<cleanVars, oneVars, pipeVars>>

CleanIdle == t = <<>> /\ txt = <<>> /\ cpc = "idle"
OneIdle == chunks = <<>> /\ acc = <<>> /\ ret = <<>> /\ ppc = "idle"
PipeStart ==
    /\ stage = "loaded"
    /\ chunk_size = Num(0, 0)
    /\ lpc = [p \in Parts |-> "run"]
    /\ ldone = [p \in Parts |-> 0]
    /\ text = [d \in Docs |-> NoText]
    /\ spc = [p \in Parts |-> "init"]
    /\ serr = [p \in Parts |-> "none"]
    /\ attempts = [p \in Parts |-> 0]
    /\ text_splitter = [p \in Parts |-> NoSplitter]
    /\ sdone = [p \in Parts |-> 0]
    /\ arrays = [d \in Docs |-> NoText]
    /\ out = [p \in Parts |-> <<>>]
    /\ memo = {}
PipeIdle ==
    /\ content = [d \in Docs |-> Parsed(<<>>)]
    /\ part = [d \in Docs |-> 1]
    /\ batchSize = 1
    /\ PipeStart

\* ------------------------------------------------------------- SpecClean
InitClean ==
    /\ t \in TextsUpTo(MaxLen)
    /\ txt = t
    /\ cpc = "line49"
    /\ OneIdle
    /\ PipeIdle

CleanLine49 ==
    /\ cpc = "line49"
    /\ txt' = RemoveNewlines(txt)
    /\ cpc' = "line50"
    /\ UNCHANGED <<t, oneVars, pipeVars>>

CleanLine50 ==
    /\ cpc = "line50"
    /\ txt' = CollapseSpaceDot(txt)
    /\ cpc' = "return"
    /\ UNCHANGED <<t, oneVars, pipeVars>>

NextClean == CleanLine49 \/ CleanLine50

SpecClean == InitClean /\ [][NextClean]_vars

\* ------------------------------------------------------------- SpecLoader
\* parse_and_clean_one_pdf on one document, the parser having returned.
InitLoader ==
    /\ chunks \in FragSeqs
    /\ acc = <<>>
    /\ ret = <<>>
    /\ ppc = "line54"
    /\ CleanIdle
    /\ PipeIdle

\* Line 54, the comprehension: clean(s.text) for the next fragment.
CleanFragment ==
    /\ ppc = "line54"
    /\ Len(acc) < Len(chunks)
    /\ acc' = Append(acc, clean(chunks[Len(acc) + 1]))
    /\ UNCHANGED <<chunks, ret, ppc, cleanVars, pipeVars>>

\* Line 54, the join and the return.
JoinFragments ==
    /\ ppc = "line54"
    /\ Len(acc) = Len(chunks)
    /\ ret' = JoinNewline(acc)
    /\ ppc' = "return"
    /\ UNCHANGED <<chunks, acc, cleanVars, pipeVars>>

NextLoader == CleanFragment \/ JoinFragments

SpecLoader == InitLoader /\ [][NextLoader]_vars

\* ------------------------------------------------------------- Spec: the pipeline
\* The chunk sizes the pipeline is run with: one that is not positive, the
\* smallest positive one, and the first with a non-zero overlap.
PipeChunkSizes == {Num(0, 0), Num(0, 1), Num(0, OverlapDivisor)}

\* Every chunk size of SpecConfig.
ChunkSizes ==
    {Num(0, n) : n \in (-MaxChunkSize)..MaxChunkSize}
        \cup {Num(OverlapDivisor, n) : n \in 0..MaxChunkSize}

\* After load_and_clean_data (lines 33-63) returned its lazy DataFrame.
InitPipe ==
    /\ content \in [Docs -> Contents]
    /\ part \in Layouts
    /\ batchSize \in 1..NumDocs
    /\ PipeStart
    /\ CleanIdle
    /\ OneIdle

\* The rows of partition p, in row order.
PartRows(p) == SelectSeq([d \in 1..NumDocs |-> d], LAMBDA d : part[d] = p)

\* The batch that follows the first `done` rows of partition p.
NextBatch(p, done) ==
    SubSeq(PartRows(p), done + 1,
           IF done + batchSize < Len(PartRows(p)) THEN done + batchSize
           ELSE Len(PartRows(p)))

Range(s) == {s[i] : i \in 1..Len(s)}

\* The partitions that hold a row; the UDFs have nothing to yield elsewhere.
UsedParts == {part[d] : d \in Docs}

\* Lines 66-93: split(df, hf_tokenizer_name, chunk_size) defines its two
\* closures and returns the lazy select; it looks at no argument.
SplitCall(sizes) ==
    /\ stage = "loaded"
    /\ \E c \in sizes : chunk_size' = c
    /\ stage' = "split"
    /\ UNCHANGED <<cleanVars, oneVars, inputVars, loadVars, splitVars>>

\* series.apply with a value carried from row to row: each text is prefixed
\* by the texts of the rows before it in the batch.
ApplyParseCarrying(batch) ==
    [i \in 1..Len(batch) |->
        JoinEmpty([j \in 1..i |-> parse_and_clean_one_pdf(content[batch[j]].frags)])]

\* Line 61: series.apply(parse_and_clean_one_pdf), the parser having
\* succeeded on every row of the batch.
ApplyParse(batch) ==
    [i \in 1..Len(batch) |-> parse_and_clean_one_pdf(content[batch[i]].frags)]

\* Lines 56-61: one turn of parse_and_clean_pdfs_udf's loop in partition p.
\* partition_pdf raising on a row ends series.apply, and with it the
\* generator: the batch is not yielded and no later batch is read.
parse_and_clean_pdfs_udf(p) ==
    /\ stage = "split"
    /\ lpc[p] = "run"
    /\ ldone[p] < Len(PartRows(p))
    /\ LET batch == NextBatch(p, ldone[p])
           texts == ApplyParse(batch)
       IN  IF \A d \in Range(batch) : content[d].ok
           THEN /\ text' = [d \in Docs |->
                       IF d \in Range(batch)
                       THEN [has |-> TRUE,
                             val |-> texts[CHOOSE i \in 1..Len(batch) : batch[i] = d]]
                       ELSE text[d]]
                /\ ldone' = [ldone EXCEPT ![p] = @ + Len(batch)]
                /\ UNCHANGED lpc
           ELSE /\ lpc' = [lpc EXCEPT ![p] = "failed"]
                /\ UNCHANGED <<ldone, text>>
    /\ UNCHANGED <<cleanVars, oneVars, inputVars, stage, chunk_size, splitVars>>

\* split_udf's head with the tokenizer's failure caught: the splitter is built
\* all the same and the rows are split.
BuildSplitterSwallowing(p) ==
    /\ stage = "split"
    /\ lpc[p] = "run"
    /\ spc[p] = "init"
    /\ attempts' = [attempts EXCEPT ![p] = @ + 1]
    /\ \E resolved \in BOOLEAN :
          /\ serr' = [serr EXCEPT ![p] = IF resolved THEN "none" ELSE "ResolutionError"]
          /\ spc' = [spc EXCEPT ![p] = "ready"]
          /\ text_splitter' = [text_splitter EXCEPT ![p] = NewSplitter(chunk_size)]
    /\ UNCHANGED <<cleanVars, oneVars, inputVars, stage, chunk_size, loadVars,
                   sdone, arrays, out, memo>>

\* Lines 83-89: split_udf's head in partition p, run once before its loop.
\* AutoTokenizer.from_pretrained is an argument of the constructor call, so it
\* runs first; when it raises, the generator ends there.  The library's
\* constructor takes every positive chunk_size; whether it takes one that is
\* not positive is the library's matter, and both outcomes are modelled.
BuildSplitter(p) ==
    /\ stage = "split"
    /\ lpc[p] = "run"
    /\ spc[p] = "init"
    /\ attempts' = [attempts EXCEPT ![p] = @ + 1]
    /\ \E resolved \in BOOLEAN, accepted \in BOOLEAN :
          IF ~resolved
          THEN /\ spc' = [spc EXCEPT ![p] = "failed"]
               /\ serr' = [serr EXCEPT ![p] = "ResolutionError"]
               /\ UNCHANGED text_splitter
          ELSE IF IsPositive(chunk_size) \/ accepted
          THEN /\ spc' = [spc EXCEPT ![p] = "ready"]
               /\ text_splitter' = [text_splitter EXCEPT ![p] = NewSplitter(chunk_size)]
               /\ UNCHANGED serr
          ELSE /\ spc' = [spc EXCEPT ![p] = "failed"]
               /\ serr' = [serr EXCEPT ![p] = "ValueError"]
               /\ UNCHANGED text_splitter
    /\ UNCHANGED <<cleanVars, oneVars, inputVars, stage, chunk_size, loadVars,
                   sdone, arrays, out, memo>>

\* Lines 75-79: split(text, splitter), the library's split_documents having
\* returned k documents.
split(txt0, splitter, k) == ChunkList(txt0, splitter, k)

\* The library's splitter is a function of the text and the splitter's
\* settings: asked again, it answers as before.
Answers(key, k) == \A m \in memo : m.key = key => m.k = k

\* Lines 90-93: one turn of split_udf's loop in partition p, on the next batch
\* the Loader yielded, and explode over the arrays it yields.
split_udf(p) ==
    /\ stage = "split"
    /\ lpc[p] = "run"
    /\ spc[p] = "ready"
    /\ sdone[p] < ldone[p]
    /\ LET batch == NextBatch(p, sdone[p])
           sp == text_splitter[p]
           keys == {<<text[d].val, sp>> : d \in Range(batch)}
       IN  \E f \in [keys -> 0..MaxChunks] :
              /\ \A key \in keys : Answers(key, f[key])
              /\ memo' = memo \cup {[key |-> key, k |-> f[key]] : key \in keys}
              /\ LET arr(d) == split(text[d].val, sp, f[<<text[d].val, sp>>])
                 IN  /\ arrays' = [d \in Docs |->
                            IF d \in Range(batch) THEN [has |-> TRUE, val |-> arr(d)]
                            ELSE arrays[d]]
                     /\ out' = [out EXCEPT ![p] = @ \o
                            Explode([i \in 1..Len(batch) |->
                                        [path |-> batch[i], arr |-> arr(batch[i])]])]
    /\ sdone' = [sdone EXCEPT ![p] = @ + Len(NextBatch(p, sdone[p]))]
    /\ UNCHANGED <<cleanVars, oneVars, inputVars, stage, chunk_size, loadVars,
                   spc, serr, attempts, text_splitter>>

Next ==
    \/ SplitCall(PipeChunkSizes)
    \/ \E p \in UsedParts : parse_and_clean_pdfs_udf(p)
    \/ \E p \in UsedParts : BuildSplitter(p)
    \/ \E p \in UsedParts : split_udf(p)

Spec == InitPipe /\ [][Next]_vars

\* ------------------------------------------------------------- SpecConfig
\* split called with every chunk size, and the splitters built from it.
NextConfig ==
    \/ SplitCall(ChunkSizes)
    \/ \E p \in UsedParts : BuildSplitter(p)

SpecConfig == InitPipe /\ [][NextConfig]_vars

\* ------------------------------------------------------------- predicates on texts
Contains(s, pat) ==
    \E i \in 1..Len(s) : i + Len(pat) - 1 <= Len(s) /\ SubSeq(s, i, i + Len(pat) - 1) = pat

HasSpaceDot(s) == Contains(s, <<SP, DOT>>)
HasTwoSpacesDot(s) == Contains(s, <<SP, SP, DOT>>)
HasNewline(s) == \E i \in 1..Len(s) : s[i] = NL

\* A space, then one or more newlines, then a period.
HasSpaceNewlinesDot(s) ==
    \E i, j \in 1..Len(s) :
        /\ i + 1 < j
        /\ s[i] = SP
        /\ s[j] = DOT
        /\ \A k \in (i + 1)..(j - 1) : s[k] = NL

\* ------------------------------------------------------------- claims

\* C1 (as stated): the result of clean(t) contains no space immediately
\* followed by a period, for every input text t.
C1_NoSpaceDot == cpc = "return" => ~HasSpaceDot(txt)

\* C1 (amended): clean(t) contains a space immediately followed by a period
\* exactly when t, with its newlines removed, contains two consecutive spaces
\* immediately followed by a period.
C1_SpaceDotIffTwoSpaces ==
    cpc = "return" => (HasSpaceDot(txt) <=> HasTwoSpacesDot(RemoveNewlines(t)))

C1_Witness ==
    /\ cpc = "return"
    /\ HasNewline(t)
    /\ HasTwoSpacesDot(RemoveNewlines(t))
    /\ HasSpaceDot(txt)

\* C2 (as stated): removing newlines and then collapsing space-before-period
\* gives the same string as collapsing first and removing newlines second.
C2_Commute == cpc = "return" => txt = RemoveNewlines(CollapseSpaceDot(t))

\* C2 (amended): the two orders give the same string exactly for the texts in
\* which no space is followed by one or more newlines and then a period.
C2_CommuteIffNoSpaceNewlinesDot ==
    cpc = "return" =>
        ((txt = RemoveNewlines(CollapseSpaceDot(t))) <=> ~HasSpaceNewlinesDot(t))

C2_Witness ==
    /\ cpc = "return"
    /\ HasNewline(t)
    /\ HasSpaceDot(t)
    /\ txt = RemoveNewlines(CollapseSpaceDot(t))

\* C3: clean(t) contains no newline character, and clean of the empty text
\* is the empty text.
C3_NoNewline == cpc = "return" => (~HasNewline(txt) /\ (t = <<>> => txt = <<>>))

C3_Witness == cpc = "return" /\ HasNewline(t) /\ Len(txt) > 0

\* ------------------------------------------------------------- helpers of the claims below
CountNewlines(s) == Cardinality({i \in 1..Len(s) : s[i] = NL})

\* The pieces of s between its newlines, as s.split("\n") gives them.
RECURSIVE SplitAtNewlines(_)
SplitAtNewlines(s) ==
    IF ~HasNewline(s) THEN <<s>>
    ELSE LET i == CHOOSE k \in 1..Len(s) : s[k] = NL /\ \A j \in 1..(k - 1) : s[j] # NL
         IN  <<SubSeq(s, 1, i - 1)>> \o SplitAtNewlines(SubSeq(s, i + 1, Len(s)))

\* The sum of the values of a function of finite domain.
RECURSIVE Sum(_)
Sum(f) ==
    IF DOMAIN f = {} THEN 0
    ELSE LET x == CHOOSE y \in DOMAIN f : TRUE
         IN  f[x] + Sum([y \in DOMAIN f \ {x} |-> f[y]])

\* The texts of the output rows of partition p that carry document d's path.
RowsOf(p, d) == SelectSeq(out[p], LAMBDA r : r.path = d)
RowTexts(rows) == [i \in 1..Len(rows) |-> rows[i].text]
ChunkCount(d) == IF arrays[d].has THEN Len(arrays[d].val) ELSE 0
TotalRows == Sum([p \in Parts |-> Len(out[p])])
TotalChunks == Sum([d \in Docs |-> ChunkCount(d)])

\* The batch of its partition a document falls into, counted from 0.
PosInPart(d) == CHOOSE i \in 1..Len(PartRows(part[d])) : PartRows(part[d])[i] = d
BatchIndex(d) == (PosInPart(d) - 1) \div batchSize

\* parse_and_clean_pdfs_udf has ended in partition p, by exhaustion or by an exception.
LoaderStopped(p) == lpc[p] = "failed" \/ ldone[p] = Len(PartRows(p))

\* C4: for a document of n >= 1 fragments the Loader's text is the cleaned
\* fragments in fragment order with one newline between neighbours: it holds
\* exactly n - 1 newlines, and cutting it at them gives clean(f1), ..., clean(fn).
C4_TextIsCleanedFragmentsJoined ==
    (ppc = "return" /\ Len(chunks) >= 1) =>
        /\ CountNewlines(ret) = Len(chunks) - 1
        /\ SplitAtNewlines(ret) = [i \in 1..Len(chunks) |-> clean(chunks[i])]

C4_Witness ==
    /\ ppc = "return"
    /\ Len(chunks) >= 2
    /\ \E i \in 1..Len(chunks) : HasNewline(chunks[i])
    /\ CountNewlines(ret) = Len(chunks) - 1

\* The integer quotient x // 10 of a held integer.
FloorTenth(x) == Num(x.hi \div OverlapDivisor, x.lo \div OverlapDivisor)

\* C5: for a positive chunk_size the overlap a built splitter was given is
\* chunk_size // 10, which is at least 0 and below chunk_size.
C5_OverlapIsTenth ==
    \A p \in Parts :
        (text_splitter[p].built /\ IsPositive(chunk_size)) =>
            /\ text_splitter[p].chunk_size = chunk_size
            /\ text_splitter[p].chunk_overlap = FloorTenth(chunk_size)
            /\ ~IsNegative(text_splitter[p].chunk_overlap)
            /\ IsLess(text_splitter[p].chunk_overlap, chunk_size)

\* C6: the output rows carrying a document's path are as many as the chunks
\* the splitter returned for its text (none when it returned none), they
\* appear in the splitter's order, in the document's partition only, and the
\* table has as many rows as all documents have chunks.
C6_FlatteningLaw ==
    /\ \A d \in Docs :
          /\ Len(RowsOf(part[d], d)) = ChunkCount(d)
          /\ arrays[d].has => RowTexts(RowsOf(part[d], d)) = arrays[d].val
          /\ arrays[d].has =>
                \E m \in memo :
                    /\ m.key = <<text[d].val, text_splitter[part[d]]>>
                    /\ m.k = Len(arrays[d].val)
          /\ \A p \in Parts \ {part[d]} : RowsOf(p, d) = <<>>
    /\ TotalRows = TotalChunks

C6_Witness ==
    /\ \E d \in Docs : arrays[d].has /\ Len(arrays[d].val) = 0
    /\ \E d \in Docs : arrays[d].has /\ Len(arrays[d].val) >= 2
    /\ TotalRows >= 2

\* C7: split called with a chunk_size that is not positive is rejected at the
\* call: it never returns its DataFrame, so no splitter is built from such a
\* size and no row is processed under it.
C7_NonPositiveRejectedAtCall == ~(stage = "split" /\ ~IsPositive(chunk_size))

\* C8: when the tokenizer cannot be resolved in a partition, split_udf ends
\* there with the resolution error before its loop: no splitter is built, no
\* row of the partition is split, no chunk row is produced for any of its
\* documents, and from_pretrained is called once only.
C8_UnresolvedTokenizerFailsBeforeRows ==
    \A p \in Parts :
        /\ attempts[p] <= 1
        /\ serr[p] = "ResolutionError" =>
              /\ spc[p] = "failed"
              /\ attempts[p] = 1
              /\ ~text_splitter[p].built
              /\ sdone[p] = 0
              /\ out[p] = <<>>
              /\ \A d \in Docs : part[d] = p => ~arrays[d].has

C8_Witness ==
    \E p \in Parts :
        /\ serr[p] = "ResolutionError"
        /\ ldone[p] >= 1
        /\ \E q \in Parts : q # p /\ out[q] # <<>>

\* C10 (as stated): what is emitted for a document depends on its own content
\* only, whatever documents share its batch, those the parser fails on
\* included: once the Loader has ended in its partition, a document has a
\* record exactly when the parser succeeds on it.
C10_IndependentOfBatchMates ==
    \A d \in Docs :
        LoaderStopped(part[d]) => (text[d].has <=> content[d].ok)

\* C10 (amended): every record and every chunk row that is emitted for a
\* document is determined by its own content and the configuration, and a
\* built splitter stays as it was built; whether the record is emitted depends
\* on the batch: once the Loader has ended in a partition, a document has a
\* record exactly when the parser succeeds on every document of its own batch
\* and of the earlier batches of its partition.
C10_EmittedRowsOwnContentOnly ==
    /\ \A d \in Docs :
          /\ text[d].has =>
                /\ content[d].ok
                /\ text[d].val = parse_and_clean_one_pdf(content[d].frags)
          /\ arrays[d].has =>
                /\ text[d].has
                /\ \E k \in 0..MaxChunks :
                      arrays[d].val = ChunkList(text[d].val, NewSplitter(chunk_size), k)
          /\ LoaderStopped(part[d]) =>
                (text[d].has <=>
                    \A e \in Docs :
                        (part[e] = part[d] /\ BatchIndex(e) <= BatchIndex(d)) => content[e].ok)
    /\ \A d, e \in Docs :
          (arrays[d].has /\ arrays[e].has /\ text[d].val = text[e].val) =>
              arrays[d].val = arrays[e].val
    /\ \A p \in Parts :
          text_splitter[p].built => text_splitter[p] = NewSplitter(chunk_size)

C10_Witness ==
    \E d, e \in Docs :
        /\ d # e
        /\ part[d] = part[e]
        /\ BatchIndex(d) = BatchIndex(e)
        /\ content[d].ok
        /\ content[d].frags # <<>>
        /\ ~content[e].ok
        /\ lpc[part[d]] = "failed"
        /\ ~text[d].has

====
